---------------------------- MODULE Spec2Model ----------------------------
(***************************************************************************)
(* A model of src/style.js: the page bootstrap with its three initializers *)
(* (navigation highlighting, scroll animations, theme toggle) and the      *)
(* stand-alone utilities (debounce, throttle, copyToClipboard,             *)
(* measurePerformance, withErrorHandling).                                 *)
(*                                                                         *)
(* Strings the script inspects character by character (the location path,  *)
(* the href attributes) are sequences of one-character strings.  Every     *)
(* component has its own specification (SpecNav, SpecTheme, ...); the      *)
(* variables of the other components stay at their idle values there.      *)
(***************************************************************************)
EXTENDS Integers, Sequences, FiniteSets, TLC

VARIABLES
    \* ---- page
    pc,                \* "loading" before DOMContentLoaded, "ready" after
    uncaught,          \* the handler that raised an uncaught error, or "none"
    \* ---- navigation
    pathname,          \* window.location.pathname
    navLinks,          \* the .nav-link elements, in document order
    mobileNavToggle,   \* #mobile-nav-toggle is in the document
    navLinksContainer, \* a .nav-links element is in the document
    mobileListener,    \* the click listener of line 28 is registered
    mobileActive,      \* .nav-links carries 'mobile-active'
    \* ---- theme
    themeToggle,       \* #theme-toggle is in the document
    bodyLight,         \* document.body carries 'light-theme'
    storage,           \* localStorage 'theme': "absent", "light" or "dark"
    icon,              \* textContent of #theme-toggle
    themeListener,     \* the click listener of line 63 is registered
    clicks,            \* toggle clicks on this page (history)
    storageAtLoad,     \* localStorage 'theme' when this page loaded (history)
    visits,            \* pages visited before this one (history)
    \* ---- animations
    hasIntersectionObserver, \* 'IntersectionObserver' in window
    dataAnimate,       \* per element: its data-animate attribute
    opacity,           \* per element: style.opacity
    animation,         \* per element: style.animation
    observed,          \* per element: the observer observes it
    inView,            \* per element: it is in the viewport
    styled,            \* per element: assignments of style.animation (history)
    entered,           \* per element: times it entered the viewport (history)
    scrolls,           \* viewport changes so far (history)
    \* ---- timers (setTimeout / clearTimeout), shared by debounce and throttle
    now,               \* the clock
    timers,            \* the pending timers
    nextId,            \* the handle the next setTimeout returns
    calls,             \* wrapper calls so far (history)
    \* ---- debounce, per wrapper
    dWait,             \* the wait the wrapper was made with
    dTimeout,          \* the closure's 'timeout' (0: undefined)
    dLastCall,         \* time of the latest wrapper call, -1 before any (history)
    dRuns,             \* the invocations of func (history)
    dBurstCalls,       \* calls of the current burst (history)
    dBurstRuns,        \* invocations of func since the current burst began (history)
    dCalledArgs,       \* the arguments of the wrapper calls, in order (history)
    \* ---- throttle, per wrapper
    tLimit,            \* the limit the wrapper was made with
    tInThrottle,       \* the closure's 'inThrottle'
    tLog,              \* the wrapper calls, with func's invocations in each (history)
    \* ---- copyToClipboard
    hasClipboard,      \* navigator.clipboard exists
    cbPhase,           \* "idle", "writing", "settled" or "raised"
    cbText,            \* the text of the call in progress
    cbWrite,           \* how writeText settled: "none", "resolved", "rejected"
    cbExec,            \* what execCommand did: "none", "true", "false", "raises"
    cbResult,          \* what the promise resolved to: "none", "true", "false"
    textAreas,         \* temporary textareas attached to the body
    attached,          \* appendChild calls of the call in progress (history)
    systemClipboard,   \* the content of the clipboard
    copies,            \* copyToClipboard calls so far (history)
    \* ---- withErrorHandling
    wehFn,             \* fn: what it does on each argument
    wehFallback,       \* fallback: a value or a function
    wehArgs,           \* the argument of the latest wrapper call
    wehResult,         \* how the latest wrapper call ended
    wehLogged,         \* console.error calls of the latest wrapper call
    wehCalls,          \* wrapper calls so far (history)
    \* ---- measurePerformance
    hasPerformance,    \* performance and performance.mark exist
    perfNow,           \* the clock of the performance timeline
    perfEntries,       \* the performance timeline: marks and measures
    mpTook,            \* how long the latest call's callback ran (history)
    mpLogged,          \* the duration the latest call logged, -1 if none
    mpResult,          \* what the latest call's callback returned (history)
    mpReturned,        \* what the latest call returned
    mpInvoked,         \* invocations of callback in the latest call (history)
    mpCalls            \* measurePerformance calls so far (history)

pageVars == <<pc, uncaught>>
navVars == <<pathname, navLinks, mobileNavToggle, navLinksContainer, mobileListener, mobileActive>>
themeVars == <<themeToggle, bodyLight, storage, icon, themeListener, clicks, storageAtLoad, visits>>
animVars == <<hasIntersectionObserver, dataAnimate, opacity, animation, observed, inView, styled, entered, scrolls>>
domVars == <<pageVars, navVars, themeVars, animVars>>
timerVars == <<now, timers, nextId, calls>>
debounceVars == <<dWait, dTimeout, dLastCall, dRuns, dBurstCalls, dBurstRuns, dCalledArgs>>
throttleVars == <<tLimit, tInThrottle, tLog>>
clipboardVars == <<hasClipboard, cbPhase, cbText, cbWrite, cbExec, cbResult, textAreas, attached, systemClipboard, copies>>
wehVars == <<wehFn, wehFallback, wehArgs, wehResult, wehLogged, wehCalls>>
measureVars == <<hasPerformance, perfNow, perfEntries, mpTook, mpLogged, mpResult, mpReturned, mpInvoked, mpCalls>>
utilVars == <<timerVars, debounceVars, throttleVars, clipboardVars, wehVars, measureVars>>
vars == <<domVars, utilVars>>

(***************************************************************************)
(* Bounds of the model.                                                    *)
(***************************************************************************)
MaxPathLen == 3
MaxHrefLen == 2
NumLinks == 2
MaxClicks == 4
MaxVisits == 2
NumAnimated == 2
MaxScrolls == 3
MaxTime == 4
MaxWait == 2
MaxCalls == 3
MaxCopies == 4
MaxWrapperCalls == 2
MaxMeasures == 3
MaxDuration == 2

(***************************************************************************)
(* Strings.                                                                *)
(***************************************************************************)
PathChars == {"/", "a"}

StringsUpTo(chars, n) == UNION {[1..k -> chars] : k \in 0..n}

IndexHtml == <<"i", "n", "d", "e", "x", ".", "h", "t", "m", "l">>

\* String.prototype.split('/'): the segments between the separators.
RECURSIVE Split(_)
Split(s) ==
    LET slashes == {i \in 1..Len(s) : s[i] = "/"}
    IN  IF slashes = {} THEN <<s>>
        ELSE LET i == CHOOSE j \in slashes : \A k \in slashes : j <= k
             IN  <<SubSeq(s, 1, i - 1)>> \o Split(SubSeq(s, i + 1, Len(s)))

\* Array.prototype.pop(): the last element.
Pop(list) == list[Len(list)]

\* A faulty variant of CurrentPage: the '|| index.html' default is forgotten.
CurrentPageNoDefault(p) == Pop(Split(p))

\* window.location.pathname.split('/').pop() || 'index.html'
CurrentPage(p) ==
    LET last == Pop(Split(p))
    IN  IF last = <<>> THEN IndexHtml ELSE last

(***************************************************************************)
(* Navigation.                                                             *)
(***************************************************************************)
\* The documents the navigation runs on: a link has an href attribute or
\* none (getAttribute returns null), and may carry 'active' in the markup.
Hrefs(n) == StringsUpTo(PathChars, n) \cup {IndexHtml}

Links(n) ==
    [hasHref : {TRUE}, href : Hrefs(n), active : BOOLEAN]
        \cup [hasHref : {FALSE}, href : {<<>>}, active : BOOLEAN]

Paths(n) == StringsUpTo(PathChars, n) \cup {<<"/">> \o IndexHtml, <<"/", "a", "/">> \o IndexHtml}

NavDocument(paths, links, n) ==
    /\ pathname \in paths
    /\ navLinks \in UNION {[1..k -> links] : k \in 0..n}
    /\ mobileListener = FALSE
    /\ mobileActive = FALSE

\* linkPage === currentPage: null is equal to no string.
LinkMatches(link, currentPage) == link.hasHref /\ link.href = currentPage

\* A faulty variant of initializeNavigation: 'active' is added to a matching
\* link but never removed from the others.
initializeNavigationKeepsActive ==
    LET currentPage == CurrentPage(pathname)
    IN  /\ navLinks' = [i \in DOMAIN navLinks |->
                            [navLinks[i] EXCEPT !.active = @ \/ LinkMatches(navLinks[i], currentPage)]]
        /\ mobileListener' = mobileNavToggle
        /\ UNCHANGED <<pathname, mobileNavToggle, navLinksContainer, mobileActive>>

initializeNavigation ==
    LET currentPage == CurrentPage(pathname)
    IN  /\ navLinks' = [i \in DOMAIN navLinks |->
                            [navLinks[i] EXCEPT !.active = LinkMatches(navLinks[i], currentPage)]]
        /\ mobileListener' = mobileNavToggle
        /\ UNCHANGED <<pathname, mobileNavToggle, navLinksContainer, mobileActive>>

\* The click listener of #mobile-nav-toggle: querySelector('.nav-links')
\* is null when there is no container, and null.classList raises.
MobileNavClick ==
    /\ pc = "ready"
    /\ mobileNavToggle /\ mobileListener
    /\ IF navLinksContainer
         THEN mobileActive' = ~mobileActive /\ UNCHANGED uncaught
         ELSE uncaught' = "mobileNavClick" /\ UNCHANGED mobileActive
    /\ UNCHANGED <<pc, pathname, navLinks, mobileNavToggle, navLinksContainer, mobileListener>>
    /\ UNCHANGED <<themeVars, animVars, utilVars>>

(***************************************************************************)
(* Theme.                                                                  *)
(***************************************************************************)
\* What the markup may show in #theme-toggle before the script sets it.
MarkupIcons == {"sun", "moon", "blank"}

ThemeDocument ==
    /\ themeToggle \in BOOLEAN
    /\ bodyLight = FALSE
    /\ icon \in MarkupIcons
    /\ themeListener = FALSE
    /\ clicks = 0

\* A faulty variant of ToggleClass: classList.add in place of classList.toggle.
ToggleClassAdds(has) == TRUE

\* classList.toggle(name): the class is present afterwards iff it was not.
ToggleClass(has) == ~has

\* A faulty variant of updateThemeIcon: the two icons are exchanged.
updateThemeIconSwapped(isLight) ==
    IF themeToggle THEN (IF isLight THEN "sun" ELSE "moon") ELSE icon

\* updateThemeIcon(isLight): the new textContent of #theme-toggle.
updateThemeIcon(isLight) ==
    IF themeToggle THEN (IF isLight THEN "moon" ELSE "sun") ELSE icon

\* A faulty variant of initializeTheme: the saved theme is applied outside
\* the check for the toggle element.
initializeThemeUnguarded ==
    /\ themeListener' = themeToggle
    /\ IF storage = "light"
         THEN bodyLight' = TRUE /\ icon' = updateThemeIcon(TRUE)
         ELSE UNCHANGED <<bodyLight, icon>>
    /\ storageAtLoad' = storage
    /\ UNCHANGED <<themeToggle, storage, clicks, visits>>

initializeTheme ==
    /\ IF themeToggle
         THEN /\ themeListener' = TRUE
              /\ IF storage = "light"
                   THEN bodyLight' = TRUE /\ icon' = updateThemeIcon(TRUE)
                   ELSE UNCHANGED <<bodyLight, icon>>
         ELSE UNCHANGED <<themeListener, bodyLight, icon>>
    /\ storageAtLoad' = storage
    /\ UNCHANGED <<themeToggle, storage, clicks, visits>>

\* The click listener of #theme-toggle.
ThemeToggleClick ==
    /\ pc = "ready"
    /\ themeToggle /\ themeListener
    /\ clicks < MaxClicks
    /\ LET isLight == ToggleClass(bodyLight)
       IN  /\ bodyLight' = isLight
           /\ storage' = (IF isLight THEN "light" ELSE "dark")
           /\ icon' = updateThemeIcon(isLight)
    /\ clicks' = clicks + 1
    /\ UNCHANGED <<themeToggle, themeListener, storageAtLoad, visits>>
    /\ UNCHANGED <<pageVars, navVars, animVars, utilVars>>

(***************************************************************************)
(* Animations.                                                             *)
(***************************************************************************)
Elements == 1..NumAnimated

\* The data-animate attribute: absent, empty, or an animation name.
NoAttr == [has |-> FALSE, value |-> ""]

Attrs == {NoAttr} \cup [has : {TRUE}, value : {"", "zoomIn"}]

\* style.animation before the script sets it.
NoAnimation == <<>>

AnimDocument(attrs) ==
    /\ hasIntersectionObserver \in BOOLEAN
    /\ dataAnimate \in [Elements -> attrs]
    /\ opacity = [e \in Elements |-> "unset"]
    /\ animation = [e \in Elements |-> NoAnimation]
    /\ observed = [e \in Elements |-> FALSE]
    /\ inView = [e \in Elements |-> FALSE]
    /\ styled = [e \in Elements |-> 0]
    /\ entered = [e \in Elements |-> 0]
    /\ scrolls = 0

\* document.querySelectorAll('[data-animate]')
AnimatedElements == {e \in Elements : dataAnimate[e].has}

\* A faulty variant of initializeAnimations: the elements are hidden
\* without checking that IntersectionObserver exists.
initializeAnimationsUnchecked ==
    /\ opacity' = [e \in Elements |-> IF e \in AnimatedElements THEN "0" ELSE opacity[e]]
    /\ observed' = [e \in Elements |-> e \in AnimatedElements /\ hasIntersectionObserver]
    /\ UNCHANGED <<hasIntersectionObserver, dataAnimate, animation, inView, styled, entered, scrolls>>

initializeAnimations ==
    /\ IF AnimatedElements # {} /\ hasIntersectionObserver
         THEN /\ opacity' = [e \in Elements |-> IF e \in AnimatedElements THEN "0" ELSE opacity[e]]
              /\ observed' = [e \in Elements |-> e \in AnimatedElements]
         ELSE UNCHANGED <<opacity, observed>>
    /\ UNCHANGED <<hasIntersectionObserver, dataAnimate, animation, inView, styled, entered, scrolls>>

\* A faulty variant of AnimationStyle: no default for an empty data-animate.
AnimationStyleNoDefault(e) == <<dataAnimate[e].value, "0.6s", "ease", "forwards">>

\* element.getAttribute('data-animate') || 'fadeInUp', in the style string
AnimationStyle(e) ==
    <<(IF dataAnimate[e].value = "" THEN "fadeInUp" ELSE dataAnimate[e].value), "0.6s", "ease", "forwards">>

\* A faulty variant of Unobserve: the element stays observed.
UnobserveForgotten(obs, e) == obs

\* observer.unobserve(element)
Unobserve(obs, e) == [obs EXCEPT ![e] = FALSE]

\* The observer's callback on a batch of entries (one per target).
RECURSIVE ObserverCallback(_, _, _, _)
ObserverCallback(entries, anim, obs, cnt) ==
    IF entries = {} THEN <<anim, obs, cnt>>
    ELSE LET entry == CHOOSE x \in entries : \A y \in entries : x.target <= y.target
             rest == entries \ {entry}
         IN  IF entry.isIntersecting
               THEN ObserverCallback(rest,
                        [anim EXCEPT ![entry.target] = AnimationStyle(entry.target)],
                        Unobserve(obs, entry.target),
                        [cnt EXCEPT ![entry.target] = @ + 1])
               ELSE ObserverCallback(rest, anim, obs, cnt)

\* The viewport changes for the elements of S (scrolling, resizing); the
\* platform reports the observed ones among them to the observer's callback.
IntersectionChange(S) ==
    /\ pc = "ready"
    /\ scrolls < MaxScrolls
    /\ scrolls' = scrolls + 1
    /\ inView' = [e \in Elements |-> IF e \in S THEN ~inView[e] ELSE inView[e]]
    /\ entered' = [e \in Elements |-> IF e \in S /\ ~inView[e] THEN entered[e] + 1 ELSE entered[e]]
    /\ LET entries == {[target |-> e, isIntersecting |-> ~inView[e]] : e \in {x \in S : observed[x]}}
           after == ObserverCallback(entries, animation, observed, styled)
       IN  /\ animation' = after[1]
           /\ observed' = after[2]
           /\ styled' = after[3]
    /\ UNCHANGED <<hasIntersectionObserver, dataAnimate, opacity>>
    /\ UNCHANGED <<pageVars, navVars, themeVars, utilVars>>

(***************************************************************************)
(* Timers.  A timer fires when the clock reaches its due time: the clock   *)
(* does not advance past a pending timer that is due.                      *)
(***************************************************************************)
Wrappers == {"w1", "w2"}

Args == {"x", "y"}

\* A faulty variant of ClearTimeout: every pending timer is cancelled,
\* whichever closure set it.
ClearTimeoutOfAll(ts, id) == {}

\* A faulty variant of ClearTimeout: the pending timer is not cancelled.
ClearTimeoutForgotten(ts, id) == ts

\* clearTimeout(id): a handle that is undefined or has fired cancels nothing.
ClearTimeout(ts, id) == {t \in ts : t.id # id}

\* setTimeout(callback, delay), the callback given by its kind and owner.
SetTimeout(ts, id, kind, w, args, delay) ==
    ts \cup {[id |-> id, due |-> now + delay, kind |-> kind, w |-> w, args |-> args]}

Tick ==
    /\ now < MaxTime
    /\ \A t \in timers : t.due > now
    /\ now' = now + 1
    /\ UNCHANGED <<timers, nextId, calls, debounceVars, throttleVars, clipboardVars, wehVars, measureVars, domVars>>

(***************************************************************************)
(* debounce(func, wait)                                                    *)
(***************************************************************************)
\* executedFunction(...args), wrapper w
DebounceCall(w, args) ==
    /\ calls < MaxCalls
    /\ calls' = calls + 1
    /\ timers' = SetTimeout(ClearTimeout(timers, dTimeout[w]), nextId, "later", w, args, dWait[w])
    /\ dTimeout' = [dTimeout EXCEPT ![w] = nextId]
    /\ nextId' = nextId + 1
    /\ dLastCall' = [dLastCall EXCEPT ![w] = now]
    /\ dCalledArgs' = [dCalledArgs EXCEPT ![w] = Append(@, args)]
    /\ LET continues == dLastCall[w] >= 0 /\ now - dLastCall[w] < dWait[w]
       IN  /\ dBurstCalls' = [dBurstCalls EXCEPT ![w] = IF continues THEN @ + 1 ELSE 1]
           /\ dBurstRuns' = [dBurstRuns EXCEPT ![w] = IF continues THEN @ ELSE 0]
    /\ UNCHANGED <<now, dWait, dRuns, throttleVars, clipboardVars, wehVars, measureVars, domVars>>

\* later(), the timer callback: clearTimeout(timeout); func(...args)
DebounceLater(t) ==
    /\ t \in timers
    /\ t.kind = "later"
    /\ t.due <= now
    /\ timers' = ClearTimeout(timers \ {t}, dTimeout[t.w])
    /\ dRuns' = [dRuns EXCEPT ![t.w] =
                    Append(@, [time |-> now, args |-> t.args, lastCall |-> dLastCall[t.w],
                               lastArgs |-> dCalledArgs[t.w][Len(dCalledArgs[t.w])]])]
    /\ dBurstRuns' = [dBurstRuns EXCEPT ![t.w] = @ + 1]
    /\ UNCHANGED <<now, nextId, calls, dWait, dTimeout, dLastCall, dBurstCalls, dCalledArgs>>
    /\ UNCHANGED <<throttleVars, clipboardVars, wehVars, measureVars, domVars>>

(***************************************************************************)
(* throttle(func, limit)                                                   *)
(***************************************************************************)
\* What func does when the wrapper invokes it: return, raise, or call the
\* wrapper once more from inside (the nested invocation returns).
FuncBehaviours == {"returns", "raises", "reenters"}

\* The wrapper w is called; func behaves as given if it is invoked.
ThrottleCall(w, behaviour) ==
    /\ calls < MaxCalls
    /\ calls' = calls + 1
    /\ IF tInThrottle[w]
         THEN \* if (!inThrottle) fails: nothing happens
              /\ tLog' = [tLog EXCEPT ![w] = Append(@, [time |-> now, invoked |-> 0])]
              /\ UNCHANGED <<tInThrottle, timers, nextId>>
         ELSE CASE behaviour = "returns" ->
                     /\ tLog' = [tLog EXCEPT ![w] = Append(@, [time |-> now, invoked |-> 1])]
                     /\ tInThrottle' = [tInThrottle EXCEPT ![w] = TRUE]
                     /\ timers' = SetTimeout(timers, nextId, "release", w, "none", tLimit[w])
                     /\ nextId' = nextId + 1
                [] behaviour = "raises" ->
                     \* func.apply raises: lines 122 and 123 are not reached
                     /\ tLog' = [tLog EXCEPT ![w] = Append(@, [time |-> now, invoked |-> 1])]
                     /\ UNCHANGED <<tInThrottle, timers, nextId>>
                [] behaviour = "reenters" ->
                     \* inside func.apply inThrottle is still unset: the nested
                     \* call invokes func, sets inThrottle and a timer; then the
                     \* outer call sets inThrottle and a second timer
                     /\ tLog' = [tLog EXCEPT ![w] = Append(@, [time |-> now, invoked |-> 2])]
                     /\ tInThrottle' = [tInThrottle EXCEPT ![w] = TRUE]
                     /\ timers' = SetTimeout(SetTimeout(timers, nextId, "release", w, "none", tLimit[w]),
                                             nextId + 1, "release", w, "none", tLimit[w])
                     /\ nextId' = nextId + 2
    /\ UNCHANGED <<now, tLimit, debounceVars, clipboardVars, wehVars, measureVars, domVars>>

\* The timer callback: inThrottle = false
ThrottleRelease(t) ==
    /\ t \in timers
    /\ t.kind = "release"
    /\ t.due <= now
    /\ timers' = timers \ {t}
    /\ tInThrottle' = [tInThrottle EXCEPT ![t.w] = FALSE]
    /\ UNCHANGED <<now, nextId, calls, tLimit, tLog, debounceVars, clipboardVars, wehVars, measureVars, domVars>>

(***************************************************************************)
(* copyToClipboard(text)                                                   *)
(***************************************************************************)
Texts == {"t1", "t2"}

\* document.body.appendChild(textArea), on the number of temporary textareas
AppendChild(n) == n + 1

\* A faulty variant of RemoveChild: the textarea is left in the document.
RemoveChildForgotten(n) == n

\* document.body.removeChild(textArea)
RemoveChild(n) == n - 1

\* copyToClipboard(text) up to the return of the promise: reading
\* navigator.clipboard.writeText raises a TypeError when navigator.clipboard
\* is undefined.
CopyCall(text) ==
    /\ cbPhase # "writing"
    /\ copies < MaxCopies
    /\ copies' = copies + 1
    /\ cbText' = text
    /\ cbWrite' = "none"
    /\ cbExec' = "none"
    /\ cbResult' = "none"
    /\ attached' = 0
    /\ cbPhase' = (IF hasClipboard THEN "writing" ELSE "raised")
    /\ UNCHANGED <<hasClipboard, textAreas, systemClipboard>>
    /\ UNCHANGED <<timerVars, debounceVars, throttleVars, wehVars, measureVars, domVars>>

\* writeText resolves: the then-handler returns true.
WriteResolved ==
    /\ cbPhase = "writing"
    /\ cbPhase' = "settled"
    /\ cbWrite' = "resolved"
    /\ cbResult' = "true"
    /\ systemClipboard' = cbText
    /\ UNCHANGED <<hasClipboard, cbText, cbExec, textAreas, attached, copies>>
    /\ UNCHANGED <<timerVars, debounceVars, throttleVars, wehVars, measureVars, domVars>>

\* writeText rejects: the catch-handler runs the fallback; execCommand
\* returns true, returns false (nothing was copied) or raises.
WriteRejected(exec) ==
    /\ cbPhase = "writing"
    /\ cbPhase' = "settled"
    /\ cbWrite' = "rejected"
    /\ cbExec' = exec
    /\ attached' = attached + 1
    /\ textAreas' = RemoveChild(AppendChild(textAreas))
    /\ cbResult' = (IF exec = "raises" THEN "false" ELSE "true")
    /\ systemClipboard' = (IF exec = "true" THEN cbText ELSE systemClipboard)
    /\ UNCHANGED <<hasClipboard, cbText, copies>>
    /\ UNCHANGED <<timerVars, debounceVars, throttleVars, wehVars, measureVars, domVars>>

(***************************************************************************)
(* withErrorHandling(fn, fallback)                                         *)
(***************************************************************************)
Returns(v) == [kind |-> "returns", val |-> v]

Raises(e) == [kind |-> "raises", val |-> e]

NoOutcome == [kind |-> "none", val |-> "none"]

Vals == {"v1", "v2"}

\* What fn, and a fallback that is a function, may do on an argument.
FnOutcomes == {Returns(v) : v \in Vals} \cup {Raises("fnError")}

FallbackOutcomes == {Returns(v) : v \in Vals} \cup {Raises("fallbackError")}

\* fallback is a value (null when the parameter is omitted) or a function.
Fallbacks ==
    [kind : {"value"}, val : {"null", "v1"}]
        \cup [kind : {"function"}, f : [Args -> FallbackOutcomes]]

\* A faulty variant of WithErrorHandling: no try/catch around fn.
WithErrorHandlingNoCatch(fn, fallback, args) == fn[args]

\* The wrapper's outcome on args.
WithErrorHandling(fn, fallback, args) ==
    IF fn[args].kind = "returns" THEN fn[args]
    ELSE IF fallback.kind = "function" THEN fallback.f[args]
    ELSE Returns(fallback.val)

WrapperCall(args) ==
    /\ wehCalls < MaxWrapperCalls
    /\ wehCalls' = wehCalls + 1
    /\ wehArgs' = args
    /\ wehResult' = WithErrorHandling(wehFn, wehFallback, args)
    /\ wehLogged' = (IF wehFn[args].kind = "raises" THEN 1 ELSE 0)
    /\ UNCHANGED <<wehFn, wehFallback>>
    /\ UNCHANGED <<timerVars, debounceVars, throttleVars, clipboardVars, measureVars, domVars>>

(***************************************************************************)
(* measurePerformance(name, callback)                                      *)
(***************************************************************************)
Names == {"n1", "n2"}

Results == {"r1", "r2"}

\* An entry of the performance timeline; the name `${name}-start` is the
\* pair of name and "-start", a measure's name is the pair of name and "".
Entry(name, suffix, type, start, duration) ==
    [name |-> <<name, suffix>>, entryType |-> type, startTime |-> start, duration |-> duration]

\* performance.getEntriesByName(name): every entry of that name, oldest first.
GetEntriesByName(entries, name) ==
    SelectSeq(entries, LAMBDA x : x.name = <<name, "">>)

\* The start time of the latest mark of a name, which performance.measure uses.
LatestMark(entries, name, suffix) ==
    LET at == {i \in 1..Len(entries) :
                   entries[i].name = <<name, suffix>> /\ entries[i].entryType = "mark"}
    IN  entries[CHOOSE i \in at : \A j \in at : j <= i].startTime

\* measurePerformance(name, callback), the callback running for `took`
\* and returning `result`.
MeasureCall(name, took, result) ==
    /\ mpCalls < MaxMeasures
    /\ mpCalls' = mpCalls + 1
    /\ mpInvoked' = 1
    /\ mpTook' = took
    /\ mpResult' = result
    /\ mpReturned' = result
    /\ perfNow' = perfNow + took
    /\ IF hasPerformance
         THEN LET marked == perfEntries
                              \o <<Entry(name, "-start", "mark", perfNow, 0)>>
                              \o <<Entry(name, "-end", "mark", perfNow + took, 0)>>
                  from == LatestMark(marked, name, "-start")
                  to == LatestMark(marked, name, "-end")
                  measured == Append(marked, Entry(name, "", "measure", from, to - from))
                  measures == GetEntriesByName(measured, name)
              IN  /\ perfEntries' = measured
                  /\ mpLogged' = measures[1].duration
         ELSE /\ mpLogged' = -1
              /\ UNCHANGED perfEntries
    /\ UNCHANGED hasPerformance
    /\ UNCHANGED <<timerVars, debounceVars, throttleVars, clipboardVars, wehVars, domVars>>

(***************************************************************************)
(* Idle values of a component that a specification does not exercise.      *)
(***************************************************************************)
NavIdle ==
    /\ pathname = <<"/">>
    /\ navLinks = <<>>
    /\ mobileNavToggle = FALSE
    /\ navLinksContainer = FALSE
    /\ mobileListener = FALSE
    /\ mobileActive = FALSE

ThemeIdle ==
    /\ themeToggle = FALSE
    /\ bodyLight = FALSE
    /\ storage = "absent"
    /\ icon = "blank"
    /\ themeListener = FALSE
    /\ clicks = 0
    /\ storageAtLoad = "absent"
    /\ visits = 0

AnimIdle ==
    /\ hasIntersectionObserver = FALSE
    /\ dataAnimate = [e \in Elements |-> NoAttr]
    /\ opacity = [e \in Elements |-> "unset"]
    /\ animation = [e \in Elements |-> NoAnimation]
    /\ observed = [e \in Elements |-> FALSE]
    /\ inView = [e \in Elements |-> FALSE]
    /\ styled = [e \in Elements |-> 0]
    /\ entered = [e \in Elements |-> 0]
    /\ scrolls = 0

PageFresh == pc = "loading" /\ uncaught = "none"

DomIdle == PageFresh /\ NavIdle /\ ThemeIdle /\ AnimIdle

TimerIdle ==
    /\ now = 0
    /\ timers = {}
    /\ nextId = 1
    /\ calls = 0

DebounceFresh ==
    /\ dTimeout = [w \in Wrappers |-> 0]
    /\ dLastCall = [w \in Wrappers |-> -1]
    /\ dRuns = [w \in Wrappers |-> <<>>]
    /\ dBurstCalls = [w \in Wrappers |-> 0]
    /\ dBurstRuns = [w \in Wrappers |-> 0]
    /\ dCalledArgs = [w \in Wrappers |-> <<>>]

DebounceIdle == dWait = [w \in Wrappers |-> 0] /\ DebounceFresh

ThrottleFresh ==
    /\ tInThrottle = [w \in Wrappers |-> FALSE]
    /\ tLog = [w \in Wrappers |-> <<>>]

ThrottleIdle == tLimit = [w \in Wrappers |-> 0] /\ ThrottleFresh

ClipboardFresh ==
    /\ cbPhase = "idle"
    /\ cbText = "none"
    /\ cbWrite = "none"
    /\ cbExec = "none"
    /\ cbResult = "none"
    /\ textAreas = 0
    /\ attached = 0
    /\ copies = 0

ClipboardIdle == hasClipboard = TRUE /\ systemClipboard = "empty" /\ ClipboardFresh

WehFresh ==
    /\ wehArgs = "none"
    /\ wehResult = NoOutcome
    /\ wehLogged = 0
    /\ wehCalls = 0

WehIdle ==
    /\ wehFn = [a \in Args |-> Returns("v1")]
    /\ wehFallback = [kind |-> "value", val |-> "null"]
    /\ WehFresh

MeasureFresh ==
    /\ perfNow = 0
    /\ perfEntries = <<>>
    /\ mpTook = 0
    /\ mpLogged = -1
    /\ mpResult = "none"
    /\ mpReturned = "none"
    /\ mpInvoked = 0
    /\ mpCalls = 0

MeasureIdle == hasPerformance = FALSE /\ MeasureFresh

UtilIdle == TimerIdle /\ DebounceIdle /\ ThrottleIdle /\ ClipboardIdle /\ WehIdle /\ MeasureIdle

(***************************************************************************)
(* SpecNav: initializeNavigation on every bounded document.                *)
(***************************************************************************)
InitNav ==
    /\ PageFresh
    /\ NavDocument(Paths(MaxPathLen), Links(MaxHrefLen), NumLinks)
    /\ mobileNavToggle = FALSE
    /\ navLinksContainer = FALSE
    /\ ThemeIdle
    /\ AnimIdle
    /\ UtilIdle

NavLoad ==
    /\ pc = "loading"
    /\ pc' = "ready"
    /\ initializeNavigation
    /\ UNCHANGED <<uncaught, themeVars, animVars, utilVars>>

SpecNav == InitNav /\ [][NavLoad]_vars

(***************************************************************************)
(* SpecTheme: page loads, toggle clicks and navigation to further pages,   *)
(* which share localStorage.                                               *)
(***************************************************************************)
InitTheme ==
    /\ PageFresh
    /\ NavIdle
    /\ ThemeDocument
    /\ storage = "absent"
    /\ storageAtLoad = "absent"
    /\ visits = 0
    /\ AnimIdle
    /\ UtilIdle

ThemeLoad ==
    /\ pc = "loading"
    /\ pc' = "ready"
    /\ initializeTheme
    /\ UNCHANGED <<uncaught, navVars, animVars, utilVars>>

\* The user follows a link: a fresh document, the same localStorage.
ThemeNavigate ==
    /\ pc = "ready"
    /\ visits < MaxVisits
    /\ visits' = visits + 1
    /\ pc' = "loading"
    /\ themeToggle' \in BOOLEAN
    /\ bodyLight' = FALSE
    /\ icon' \in MarkupIcons
    /\ themeListener' = FALSE
    /\ clicks' = 0
    /\ UNCHANGED <<storage, storageAtLoad>>
    /\ UNCHANGED <<uncaught, navVars, animVars, utilVars>>

NextTheme == ThemeLoad \/ ThemeToggleClick \/ ThemeNavigate

SpecTheme == InitTheme /\ [][NextTheme]_vars

(***************************************************************************)
(* SpecAnim: initializeAnimations, then viewport changes.                  *)
(***************************************************************************)
InitAnim ==
    /\ PageFresh
    /\ NavIdle
    /\ ThemeIdle
    /\ AnimDocument(Attrs)
    /\ UtilIdle

AnimLoad ==
    /\ pc = "loading"
    /\ pc' = "ready"
    /\ initializeAnimations
    /\ UNCHANGED <<uncaught, navVars, themeVars, utilVars>>

ViewportChange == \E S \in (SUBSET Elements) \ {{}} : IntersectionChange(S)

NextAnim == AnimLoad \/ ViewportChange

SpecAnim == InitAnim /\ [][NextAnim]_vars

(***************************************************************************)
(* SpecPage: the DOMContentLoaded listener (the three initializers in      *)
(* order) on documents that have or lack each element the script looks up, *)
(* then the registered listeners and the observer's callback.              *)
(***************************************************************************)
PageLinks == {[hasHref |-> TRUE, href |-> IndexHtml, active |-> FALSE]}

InitPage ==
    /\ PageFresh
    /\ NavDocument({<<"/">>}, PageLinks, 1)
    /\ mobileNavToggle \in BOOLEAN
    /\ navLinksContainer \in BOOLEAN
    /\ ThemeDocument
    /\ storage = "absent"
    /\ storageAtLoad = "absent"
    /\ visits = 0
    /\ AnimDocument({NoAttr, [has |-> TRUE, value |-> ""]})
    /\ UtilIdle

DOMContentLoaded ==
    /\ pc = "loading"
    /\ pc' = "ready"
    /\ initializeNavigation
    /\ initializeAnimations
    /\ initializeTheme
    /\ UNCHANGED <<uncaught, utilVars>>

NextPage == DOMContentLoaded \/ MobileNavClick \/ ThemeToggleClick \/ ViewportChange

SpecPage == InitPage /\ [][NextPage]_vars

(***************************************************************************)
(* SpecDebounce: two wrappers made by two debounce calls, called at any    *)
(* times with any arguments.                                               *)
(***************************************************************************)
InitDebounce ==
    /\ DomIdle
    /\ TimerIdle
    /\ dWait \in [Wrappers -> 0..MaxWait]
    /\ DebounceFresh
    /\ ThrottleIdle /\ ClipboardIdle /\ WehIdle /\ MeasureIdle

DebounceWrapperCalled == \E w \in Wrappers, a \in Args : DebounceCall(w, a)

DebounceTimerFires == \E t \in timers : DebounceLater(t)

NextDebounce == DebounceWrapperCalled \/ DebounceTimerFires \/ Tick

SpecDebounce == InitDebounce /\ [][NextDebounce]_vars

(***************************************************************************)
(* SpecThrottle: two wrappers made by two throttle calls.                  *)
(***************************************************************************)
InitThrottle ==
    /\ DomIdle
    /\ TimerIdle
    /\ tLimit \in [Wrappers -> 0..MaxWait]
    /\ ThrottleFresh
    /\ DebounceIdle /\ ClipboardIdle /\ WehIdle /\ MeasureIdle

ThrottleWrapperCalled == \E w \in Wrappers, b \in FuncBehaviours : ThrottleCall(w, b)

ThrottleTimerFires == \E t \in timers : ThrottleRelease(t)

NextThrottle == ThrottleWrapperCalled \/ ThrottleTimerFires \/ Tick

SpecThrottle == InitThrottle /\ [][NextThrottle]_vars

(***************************************************************************)
(* SpecClipboard: successive copyToClipboard calls on a platform with or   *)
(* without navigator.clipboard.                                            *)
(***************************************************************************)
InitClipboard ==
    /\ DomIdle
    /\ TimerIdle /\ DebounceIdle /\ ThrottleIdle /\ WehIdle /\ MeasureIdle
    /\ hasClipboard \in BOOLEAN
    /\ systemClipboard \in Texts \cup {"empty"}
    /\ ClipboardFresh

CopyCalled == \E text \in Texts : CopyCall(text)

WriteFailed == \E exec \in {"true", "false", "raises"} : WriteRejected(exec)

NextClipboard == CopyCalled \/ WriteResolved \/ WriteFailed

SpecClipboard == InitClipboard /\ [][NextClipboard]_vars

(***************************************************************************)
(* SpecWrap: wrappers of every bounded fn and fallback, called on every    *)
(* argument.                                                               *)
(***************************************************************************)
InitWrap ==
    /\ DomIdle
    /\ TimerIdle /\ DebounceIdle /\ ThrottleIdle /\ ClipboardIdle /\ MeasureIdle
    /\ wehFn \in [Args -> FnOutcomes]
    /\ wehFallback \in Fallbacks
    /\ WehFresh

WrapperCalled == \E a \in Args : WrapperCall(a)

SpecWrap == InitWrap /\ [][WrapperCalled]_vars

(***************************************************************************)
(* SpecMeasure: successive measurePerformance calls, with or without the   *)
(* performance timeline.                                                   *)
(***************************************************************************)
InitMeasure ==
    /\ DomIdle
    /\ TimerIdle /\ DebounceIdle /\ ThrottleIdle /\ ClipboardIdle /\ WehIdle
    /\ hasPerformance \in BOOLEAN
    /\ MeasureFresh

MeasureCalled ==
    \E name \in Names, took \in 1..MaxDuration, result \in Results :
        MeasureCall(name, took, result)

SpecMeasure == InitMeasure /\ [][MeasureCalled]_vars

(***************************************************************************)
(* Claims about the theme.                                                 *)
(***************************************************************************)
\* C1: after every page load and every later toggle click, the body carries
\* light-theme if and only if the persisted 'theme' value is 'light', on
\* every page the script runs on, whatever an earlier page persisted.
C1_BodyAgreesWithStorage == pc = "ready" => (bodyLight <=> storage = "light")

\* C2: from the default state (nothing persisted, body without light-theme,
\* toggle present) an odd number of clicks leaves the body light, 'light'
\* persisted and the moon icon; an even number of clicks (two or more)
\* leaves the body dark, the sun icon and the persisted value 'dark', and a
\* page that loads with that value stays dark.
C2_ClicksAlternate ==
    /\ (pc = "ready" /\ themeToggle /\ storageAtLoad = "absent") =>
          /\ bodyLight <=> (clicks % 2 = 1)
          /\ (clicks % 2 = 1) => (storage = "light" /\ icon = "moon")
          /\ (clicks > 0 /\ clicks % 2 = 0) => (storage = "dark" /\ icon = "sun")
    /\ (pc = "ready" /\ clicks = 0 /\ storageAtLoad = "dark") => ~bodyLight

C2_TwoClicksFromDefault ==
    pc = "ready" /\ themeToggle /\ storageAtLoad = "absent" /\ clicks = 2

\* C12: on a page without the toggle element the page load leaves the
\* body's class, the persisted value and the icon as they were and
\* registers no listener; on every page the load writes nothing to
\* localStorage: the persisted value changes only in a toggle click.
C12_InertWithoutToggle ==
    [][/\ (pc = "loading" /\ pc' = "ready") => (storage' = storage)
       /\ (pc = "loading" /\ pc' = "ready" /\ ~themeToggle) =>
             (bodyLight' = bodyLight /\ icon' = icon /\ ~themeListener')
       /\ (storage' # storage) => (clicks' = clicks + 1)]_vars

C12_LoadedWithoutToggle ==
    pc = "ready" /\ ~themeToggle /\ storage = "light" /\ ~bodyLight /\ ~themeListener

\* C15, as stated: on every page with the toggle, after the load and after
\* every click, the icon is the moon if and only if the body is light and
\* the sun otherwise; after a load without a persisted 'light' it is the sun.
C15_IconFollowsBody ==
    (pc = "ready" /\ themeToggle) =>
        /\ (icon = "moon") <=> bodyLight
        /\ (~bodyLight) => (icon = "sun")

\* C15, amended: on every page with the toggle, after a load that found
\* 'light' persisted and after every click, the icon is the moon when the
\* body is light and the sun when it is not; a load that finds no persisted
\* 'light' leaves the icon as the markup has it.
C15_IconFollowsBodyOnceSet ==
    /\ []((pc = "ready" /\ themeToggle /\ (clicks > 0 \/ storageAtLoad = "light")) =>
             (icon = (IF bodyLight THEN "moon" ELSE "sun")))
    /\ [][(pc = "loading" /\ pc' = "ready" /\ storage # "light") => (icon' = icon)]_vars

C15_LoadedLightWithMoon ==
    /\ pc = "ready" /\ themeToggle
    /\ clicks = 0 /\ storageAtLoad = "light"
    /\ bodyLight /\ icon = "moon"

(***************************************************************************)
(* Claims about the navigation.                                            *)
(***************************************************************************)
\* The part of p after its last '/', all of p when it has none.
LastSegment(p) ==
    LET slashes == {i \in 1..Len(p) : p[i] = "/"}
    IN  IF slashes = {} THEN p
        ELSE SubSeq(p, (CHOOSE j \in slashes : \A k \in slashes : k <= j) + 1, Len(p))

\* C5: after initializeNavigation a link carries 'active' if and only if
\* its href attribute equals the last '/'-separated segment of the path,
\* or 'index.html' when that segment is empty.
C5_ActiveIffHrefIsCurrentPage ==
    pc = "ready" =>
        \A i \in DOMAIN navLinks :
            navLinks[i].active <=>
                /\ navLinks[i].hasHref
                /\ navLinks[i].href =
                      (IF LastSegment(pathname) = <<>> THEN IndexHtml ELSE LastSegment(pathname))

C5_IndexLinkActivatedOnDirectoryPath ==
    /\ pc = "ready"
    /\ Len(pathname) > 0
    /\ LastSegment(pathname) = <<>>
    /\ Len(navLinks) = 2
    /\ navLinks[1].active /\ navLinks[1].href = IndexHtml
    /\ ~navLinks[2].active /\ navLinks[2].hasHref /\ navLinks[2].href = <<>>

\* The links whose href is the current page, and the links carrying 'active'.
MatchingLinks ==
    LET target == IF LastSegment(pathname) = <<>> THEN IndexHtml ELSE LastSegment(pathname)
    IN  {i \in DOMAIN navLinks : navLinks[i].hasHref /\ navLinks[i].href = target}

ActiveLinks == {i \in DOMAIN navLinks : navLinks[i].active}

\* C14, as stated: after initializeNavigation exactly one link carries
\* 'active' when some link matches the current page and none when no link
\* does; never more than one.
C14_AtMostOneActive ==
    pc = "ready" =>
        Cardinality(ActiveLinks) = (IF MatchingLinks = {} THEN 0 ELSE 1)

\* C14, amended: after initializeNavigation as many links carry 'active' as
\* match the current page: none when no link matches, exactly one when
\* exactly one matches, and every one of them when several links have the
\* matching href.
C14_ActiveCountIsMatchCount ==
    pc = "ready" =>
        /\ Cardinality(ActiveLinks) = Cardinality(MatchingLinks)
        /\ (MatchingLinks = {}) => (ActiveLinks = {})
        /\ (Cardinality(MatchingLinks) = 1) => (Cardinality(ActiveLinks) = 1)

C14_TwoLinksToCurrentPage ==
    pc = "ready" /\ Cardinality(MatchingLinks) = 2 /\ Cardinality(ActiveLinks) = 2

(***************************************************************************)
(* Claims about the animations.                                            *)
(***************************************************************************)
\* C6: with the observer available every data-animate element has opacity
\* '0' once initializeAnimations has run, its animation style is assigned
\* at most once however often it leaves and re-enters the viewport, and an
\* animated element is never pending (observed, without animation) again.
C6_AnimatedAtMostOnce ==
    (pc = "ready" /\ hasIntersectionObserver) =>
        \A e \in AnimatedElements :
            /\ opacity[e] = "0"
            /\ styled[e] <= 1
            /\ (styled[e] = 0) => (animation[e] = NoAnimation)
            /\ (styled[e] = 1) => (animation[e] = AnimationStyle(e) /\ ~observed[e])

C6_ReenteredAfterAnimation ==
    \E e \in AnimatedElements :
        pc = "ready" /\ hasIntersectionObserver /\ styled[e] = 1 /\ entered[e] >= 2

\* C13: without IntersectionObserver initializeAnimations changes nothing:
\* no element has its opacity or animation style set, then or later, so
\* no element is left invisible.
C13_NothingHiddenWithoutObserver ==
    (pc = "ready" /\ ~hasIntersectionObserver) =>
        \A e \in Elements :
            opacity[e] = "unset" /\ animation[e] = NoAnimation /\ ~observed[e] /\ styled[e] = 0

C13_ScrolledWithoutObserver ==
    /\ pc = "ready"
    /\ ~hasIntersectionObserver
    /\ AnimatedElements = Elements
    /\ \E e \in Elements : entered[e] >= 1

\* C19: with the observer available, an element that initializeAnimations
\* made invisible is still observed or has its animation style: none is
\* invisible, unanimated and unobserved.  One that has been reported
\* intersecting has the animation named by its data-animate value, or
\* 'fadeInUp' when that value is empty.
C19_HiddenElementsGetAnimated ==
    (pc = "ready" /\ hasIntersectionObserver) =>
        \A e \in Elements :
            (opacity[e] = "0") =>
                /\ observed[e] \/ animation[e] # NoAnimation
                /\ (entered[e] >= 1) =>
                      /\ animation[e] # NoAnimation
                      /\ animation[e][1] =
                            (CASE dataAnimate[e].value = "" -> "fadeInUp"
                               [] OTHER -> dataAnimate[e].value)

C19_DefaultAnimationWhileOtherPending ==
    /\ pc = "ready" /\ hasIntersectionObserver
    /\ \E e \in Elements :
          /\ dataAnimate[e] = [has |-> TRUE, value |-> ""]
          /\ entered[e] >= 1 /\ ~observed[e]
          /\ animation[e] # NoAnimation /\ animation[e][1] = "fadeInUp"
    /\ \E e \in Elements :
          opacity[e] = "0" /\ observed[e] /\ animation[e] = NoAnimation

(***************************************************************************)
(* Claims about missing elements.                                          *)
(***************************************************************************)
\* C10: whichever of the elements the script looks up are present or
\* absent, neither the initializers nor a registered click listener ever
\* raises an error.
C10_NoHandlerRaises == uncaught = "none"

(***************************************************************************)
(* Claims about debounce and throttle.                                     *)
(***************************************************************************)
\* C3: func runs only at the time of the latest wrapper call plus wait;
\* a burst of calls (each less than wait after the one before) followed by
\* wait without a call invokes func exactly once, and not before; func
\* runs at most once per quiescent period.
C3_DebounceTrailingOnce ==
    \A w \in Wrappers :
        /\ \A k \in 1..Len(dRuns[w]) : dRuns[w][k].time = dRuns[w][k].lastCall + dWait[w]
        /\ dBurstRuns[w] <= 1
        /\ (dLastCall[w] >= 0 /\ now < dLastCall[w] + dWait[w]) => dBurstRuns[w] = 0
        /\ (dLastCall[w] >= 0 /\ now > dLastCall[w] + dWait[w]) => dBurstRuns[w] = 1

C3_BurstThenQuiet ==
    \E w \in Wrappers :
        /\ dBurstCalls[w] >= 2
        /\ dWait[w] = 2
        /\ dLastCall[w] = 1
        /\ now > dLastCall[w] + dWait[w]
        /\ Len(dRuns[w]) = 1

\* The pending timers of a debounce wrapper.
PendingLater(w) == {t \in timers : t.kind = "later" /\ t.w = w}

\* C18: a debounce wrapper has at most one pending timer; func receives
\* the arguments of the most recent wrapper call; and whatever the other
\* wrapper does, a wrapper that was called and has not run func since has
\* its timer pending, due at its own latest call plus its own wait, with
\* the arguments of that call.
C18_OneTimerPerWrapper ==
    \A w \in Wrappers :
        /\ Cardinality(PendingLater(w)) <= 1
        /\ \A k \in 1..Len(dRuns[w]) : dRuns[w][k].args = dRuns[w][k].lastArgs
        /\ (dLastCall[w] >= 0 /\ dBurstRuns[w] = 0) =>
              \E t \in PendingLater(w) :
                  /\ t.due = dLastCall[w] + dWait[w]
                  /\ t.args = dCalledArgs[w][Len(dCalledArgs[w])]

C18_LatestArgsDeliveredBesideOtherWrapper ==
    /\ dCalledArgs["w1"] = <<"x", "y">>
    /\ Len(dRuns["w1"]) = 1
    /\ dRuns["w1"][1].args = "y"
    /\ PendingLater("w2") # {}

\* C4: the first call of a throttle wrapper invokes func; a call made less
\* than limit after the last accepted call (one that invoked func) does not
\* invoke it; a call made more than limit after it invokes func once: func
\* runs exactly once in a window of length limit that starts at an accepted
\* call.
C4_OneInvocationPerWindow ==
    \A w \in Wrappers :
        \A j \in 1..Len(tLog[w]) :
            LET accepted == {i \in 1..(j - 1) : tLog[w][i].invoked > 0}
            IN  IF accepted = {} THEN tLog[w][j].invoked = 1
                ELSE LET i == CHOOSE a \in accepted : \A b \in accepted : b <= a
                         elapsed == tLog[w][j].time - tLog[w][i].time
                     IN  /\ (elapsed < tLimit[w]) => (tLog[w][j].invoked = 0)
                         /\ (elapsed > tLimit[w]) => (tLog[w][j].invoked = 1)

\* C17: a call of the throttle wrapper made from inside func, during the
\* accepted invocation, is suppressed like any other call inside the
\* window: one wrapper call from outside never leads to more than one
\* invocation of func.
C17_ReentrantCallSuppressed ==
    \A w \in Wrappers :
        \A j \in 1..Len(tLog[w]) : tLog[w][j].invoked <= 1

(***************************************************************************)
(* Claims about copyToClipboard.                                           *)
(***************************************************************************)
\* C7: the promise resolves to true if the platform write succeeded or the
\* fallback copy command succeeded, and to false exactly when both failed
\* (the command raising or reporting that nothing was copied).
C7_ResultReflectsBothPaths ==
    cbPhase = "settled" =>
        /\ cbResult = "true" <=> (cbWrite = "resolved" \/ cbExec = "true")
        /\ cbResult = "false" <=> (cbWrite = "rejected" /\ cbExec \in {"false", "raises"})

\* C8: without navigator.clipboard a call still takes the fallback path and
\* yields a boolean outcome; it raises no error to the caller.
C8_FallbackWithoutClipboard ==
    (~hasClipboard /\ cbPhase # "idle") =>
        /\ cbPhase # "raised"
        /\ cbPhase = "settled" => (cbExec # "none" /\ cbResult \in {"true", "false"})

\* C11: when the platform write succeeds the call attaches no element;
\* when it fails exactly one temporary element is attached, and whatever
\* the copy command does (succeeds, reports failure, raises) no temporary
\* element is left in the document when the promise settles.
C11_TemporaryElementRemoved ==
    cbPhase = "settled" =>
        /\ (cbWrite = "resolved") => (attached = 0)
        /\ (cbWrite = "rejected") => (attached = 1)
        /\ textAreas = 0

C11_FallbackRaisedAndCleanedUp ==
    cbPhase = "settled" /\ cbWrite = "rejected" /\ cbExec = "raises" /\ attached = 1

(***************************************************************************)
(* Claims about withErrorHandling.                                         *)
(***************************************************************************)
\* C9, as stated: the wrapper never propagates an error to its caller,
\* for every fn and every fallback.
C9_WrapperNeverRaises == wehResult.kind # "raises"

\* C9, amended: the wrapper never propagates an error raised by fn.  When
\* fn returns, the wrapper returns fn's result and logs nothing; when fn
\* raises, the wrapper logs once and ends as fallback(...args) ends if
\* fallback is a function (an error raised by fallback itself propagates),
\* and returns the fallback value otherwise.
C9_FnErrorNeverPropagates ==
    wehCalls > 0 =>
        /\ wehResult \notin {Raises("fnError"), NoOutcome}
        /\ (wehFn[wehArgs].kind = "returns") =>
              (wehResult = wehFn[wehArgs] /\ wehLogged = 0)
        /\ (wehFn[wehArgs].kind = "raises") =>
              /\ wehLogged = 1
              /\ (wehFallback.kind = "value") => (wehResult = Returns(wehFallback.val))
              /\ (wehFallback.kind = "function") => (wehResult = wehFallback.f[wehArgs])
        /\ (wehResult.kind = "raises") =>
              (wehFallback.kind = "function" /\ wehResult.val = "fallbackError")

C9_FnRaisedFallbackCalled ==
    /\ wehCalls > 0
    /\ wehFn[wehArgs].kind = "raises"
    /\ wehFallback.kind = "function"
    /\ wehFallback.f["x"] # wehFallback.f["y"]
    /\ wehResult.kind = "returns"

(***************************************************************************)
(* Claims about measurePerformance.                                        *)
(***************************************************************************)
\* C16: every call invokes callback exactly once and returns its result;
\* with the performance timeline available the duration it logs is the
\* duration measured by that very call, also when the name was used before.
C16_LogsOwnDuration ==
    mpCalls > 0 =>
        /\ mpInvoked = 1
        /\ mpReturned = mpResult
        /\ hasPerformance => (mpLogged = mpTook)

=============================================================================
